---- MODULE Spec2Model ----
(***************************************************************************)
(* A model of the sudoku solver of main.py: candidate computation, the     *)
(* propagation pass (forced cells and hidden singles), the propagation     *)
(* loop of solve, and the backtracking search of brute_force, the latter   *)
(* unrolled into one action per call, loop iteration and return so that    *)
(* the grid can be observed while recursive frames are active.             *)
(* A grid is a function 0..8 -> (0..8 -> 0..9), indexed as sudoku[i][j].   *)
(***************************************************************************)
EXTENDS Integers, Sequences, FiniteSets

VARIABLES sudoku, pc, step_counter, steps, before, stack, ret, ret_entry,
          given, entry, mode, calls

vars == <<sudoku, pc, step_counter, steps, before, stack, ret, ret_entry,
          given, entry, mode, calls>>

(***************************************************************************)
(* Bounds of the explored inputs.                                          *)
(***************************************************************************)
MaxBlanks == 3
MaxWrong == 1
MaxCalls == 2

Idx == 0..8
ref == 1..9

(***************************************************************************)
(* Input grids.  Solved is the solution of the puzzle of the entry point;  *)
(* an input blanks the cells of Hard (or not), blanks up to MaxBlanks      *)
(* cells of Free and overwrites up to MaxWrong further cells of Free with  *)
(* another digit.                                                          *)
(***************************************************************************)
SolvedRows ==
  << <<7, 9, 8, 3, 5, 4, 6, 2, 1>>,
     <<3, 1, 2, 9, 7, 6, 8, 5, 4>>,
     <<5, 6, 4, 8, 1, 2, 7, 3, 9>>,
     <<2, 4, 7, 6, 3, 1, 5, 9, 8>>,
     <<9, 3, 5, 7, 2, 8, 4, 1, 6>>,
     <<1, 8, 6, 4, 9, 5, 3, 7, 2>>,
     <<8, 7, 9, 1, 6, 3, 2, 4, 5>>,
     <<6, 2, 3, 5, 4, 9, 1, 8, 7>>,
     <<4, 5, 1, 2, 8, 7, 9, 6, 3>> >>

Solved == [i \in Idx |-> [j \in Idx |-> SolvedRows[i + 1][j + 1]]]

Hard == {<<1, 5>>, <<3, 3>>, <<3, 4>>, <<3, 5>>, <<3, 6>>, <<6, 4>>, <<6, 5>>}

Free == {<<1, 1>>, <<1, 3>>, <<1, 6>>, <<3, 1>>, <<6, 1>>, <<6, 3>>}

Wrong(v) == (v % 9) + 1

Puzzle(hard, B, W) ==
  [i \in Idx |-> [j \in Idx |->
     IF <<i, j>> \in B \/ (hard /\ <<i, j>> \in Hard) THEN 0
     ELSE IF <<i, j>> \in W THEN Wrong(Solved[i][j])
     ELSE Solved[i][j]]]

(***************************************************************************)
(* Grid accessors.                                                         *)
(***************************************************************************)
get_fields(s) ==
  [f \in Idx |-> [r \in 0..2 |-> [c \in 0..2 |->
     s[(f \div 3) * 3 + r][(f % 3) * 3 + c]]]]

\* get_field with the box index computed from the column's position inside
\* its box instead of the column's box
get_field_shifted(i, j, s) ==
  [k \in Idx |-> get_fields(s)[(i \div 3) * 3 + (j % 3)][k \div 3][k % 3]]

get_field(i, j, s) ==
  [k \in Idx |-> get_fields(s)[(i \div 3) * 3 + (j \div 3)][k \div 3][k % 3]]

get_row(i, s) == s[i]

get_column(j, s) == [r \in Idx |-> s[r][j]]

\* python's set(list)
SetOf(list) == {list[k] : k \in DOMAIN list}

\* the first element a python for loop (or next(iter(..))) takes from a
\* set of digits: sets of small integers iterate in ascending order
First(S) == CHOOSE d \in S : \A e \in S : d <= e

(***************************************************************************)
(* Candidates.                                                             *)
(***************************************************************************)
get_possible_values(i, j, s) ==
  ((ref \ SetOf(get_field(i, j, s))) \ SetOf(get_row(i, s)))
     \ SetOf(get_column(j, s))

\* get_possibilities without the test for filled cells
get_possibilities_all(s) ==
  [i \in Idx |-> [j \in Idx |-> get_possible_values(i, j, s)]]

get_possibilities(s) ==
  [i \in Idx |-> [j \in Idx |->
     IF s[i][j] \notin ref THEN get_possible_values(i, j, s) ELSE {}]]

\* every entry of the candidate table is a set, so the type test of line 71
\* always passes
other_contains(iterable, index, item) ==
  \E k \in DOMAIN iterable : k # index /\ item \in iterable[k]

\* can_be_placed_elsewhere with the three tests joined by "or"
can_be_placed_elsewhere_any(i, j, nr, poss) ==
  \/ other_contains(get_column(j, poss), i, nr)
  \/ other_contains(get_row(i, poss), j, nr)
  \/ other_contains(get_field(i, j, poss), (i % 3) * 3 + (j % 3), nr)

can_be_placed_elsewhere(i, j, nr, poss) ==
  /\ other_contains(get_column(j, poss), i, nr)
  /\ other_contains(get_row(i, poss), j, nr)
  /\ other_contains(get_field(i, j, poss), (i % 3) * 3 + (j % 3), nr)

(***************************************************************************)
(* One propagation pass.  cell_steps is the body of the double loop of     *)
(* find_next_steps for one cell: the steps it appends to res.              *)
(***************************************************************************)
\* cell_steps with the "not" of the hidden-single test dropped
cell_steps_unnegated(i, j, poss) ==
  LET current == poss[i][j]
      hidden == {number \in current :
                   can_be_placed_elsewhere(i, j, number, poss)}
  IN  IF Cardinality(current) = 1 THEN << <<i, j, First(current)>> >>
      ELSE IF hidden # {} THEN << <<i, j, First(hidden)>> >>
      ELSE << >>

cell_steps(i, j, poss) ==
  LET current == poss[i][j]
      hidden == {number \in current :
                   ~can_be_placed_elsewhere(i, j, number, poss)}
  IN  IF Cardinality(current) = 1 THEN << <<i, j, First(current)>> >>
      ELSE IF hidden # {} THEN << <<i, j, First(hidden)>> >>
      ELSE << >>

\* the inner loop of find_next_steps: the steps appended for row i
row_steps(i, poss) ==
  cell_steps(i, 0, poss) \o cell_steps(i, 1, poss) \o cell_steps(i, 2, poss)
    \o cell_steps(i, 3, poss) \o cell_steps(i, 4, poss)
    \o cell_steps(i, 5, poss) \o cell_steps(i, 6, poss)
    \o cell_steps(i, 7, poss) \o cell_steps(i, 8, poss)

\* the outer loop of find_next_steps: res after all rows
all_steps(poss) ==
  row_steps(0, poss) \o row_steps(1, poss) \o row_steps(2, poss)
    \o row_steps(3, poss) \o row_steps(4, poss) \o row_steps(5, poss)
    \o row_steps(6, poss) \o row_steps(7, poss) \o row_steps(8, poss)

find_next_steps(s) == all_steps(get_possibilities(s))

\* perform_steps that writes nothing
perform_steps_none(sts, s) == s

RECURSIVE perform_steps(_, _)
perform_steps(sts, s) ==
  IF sts = << >> THEN s
  ELSE LET step == Head(sts)
       IN  perform_steps(Tail(sts),
                         [s EXCEPT ![step[1]][step[2]] = step[3]])

(***************************************************************************)
(* Validation.                                                             *)
(***************************************************************************)
is_valid(s) ==
  /\ \A i \in Idx : SetOf(get_row(i, s)) = ref
  /\ \A j \in Idx : SetOf(get_column(j, s)) = ref
  /\ \A f \in Idx :
       {get_fields(s)[f][r][c] : r \in 0..2, c \in 0..2} = ref

(***************************************************************************)
(* Backtracking search.                                                    *)
(***************************************************************************)
None == << >>

\* the first empty cell in row-major order (k = 9 * i + j) with its
\* possible values, None if no cell is empty
next_step(s) ==
  LET first == {k \in 0..80 :
                  /\ s[k \div 9][k % 9] \notin ref
                  /\ \A m \in 0..(k - 1) : s[m \div 9][m % 9] \in ref}
  IN  IF first = {} THEN None
      ELSE CHOOSE step \in
             {<<k \div 9, k % 9, get_possible_values(k \div 9, k % 9, s)>> :
                k \in first} : TRUE

\* the assignment of line 161 with the indices swapped
set_cell_transposed(s, i, j, nr) == [s EXCEPT ![j][i] = nr]

set_cell(s, i, j, nr) == [s EXCEPT ![i][j] = nr]

\* the reset of line 164 left out
reset_cell_skip(s, i, j) == s

reset_cell(s, i, j) == [s EXCEPT ![i][j] = 0]

bool(b) == IF b THEN "True" ELSE "False"

(***************************************************************************)
(* State.                                                                  *)
(*   sudoku        the grid, mutated in place                              *)
(*   pc            "loop"  solve is at the top of its while loop           *)
(*                 "check" the loop was left, is_valid is tested next      *)
(*                 "call"  try_combinations has just been entered          *)
(*                 "for"   the top frame is at the head of its for loop    *)
(*                 "ret"   a try_combinations call has just returned ret   *)
(*                 "done"  the entry point has returned                    *)
(*   step_counter  the pass counter of solve                               *)
(*   steps         the batch found by the last pass                        *)
(*   before        the grid the last pass computed its candidates from     *)
(*   stack         the active frames of try_combinations that chose a      *)
(*                 cell: the cell, the digits not yet iterated, the        *)
(*                 digit currently placed and the grid at the frame's      *)
(*                 entry                                                   *)
(*   ret           value returned by the last try_combinations call        *)
(*   ret_entry     the grid as it was when that call was entered           *)
(*   given         the grid as passed to the entry point                   *)
(*   entry         the grid as passed to brute_force                       *)
(*   mode          the entry point called: "solve" or "brute_force"        *)
(*   calls         number of calls of solve made so far                    *)
(***************************************************************************)
Init ==
  \E hard \in BOOLEAN, B \in SUBSET Free, W \in SUBSET Free,
     m \in {"solve", "brute_force"} :
    /\ Cardinality(B) <= MaxBlanks
    /\ Cardinality(W) <= MaxWrong
    /\ B \cap W = {}
    /\ sudoku = Puzzle(hard, B, W)
    /\ given = sudoku
    /\ entry = sudoku
    /\ ret_entry = sudoku
    /\ mode = m
    /\ pc = IF m = "solve" THEN "loop" ELSE "call"
    /\ step_counter = 0
    /\ steps = << >>
    /\ before = sudoku
    /\ stack = << >>
    /\ ret = "None"
    /\ calls = 1

\* solve, lines 122-127: one iteration of the while loop (outputs is False,
\* nothing is printed)
Pass ==
  /\ pc = "loop"
  /\ \E found \in {find_next_steps(sudoku)} :
       /\ step_counter' = step_counter + 1
       /\ steps' = found
       /\ before' = sudoku
       /\ IF Len(found) = 0
          THEN /\ pc' = "check"
               /\ sudoku' = sudoku
          ELSE /\ pc' = "loop"
               /\ sudoku' = perform_steps(found, sudoku)
  /\ UNCHANGED <<stack, ret, ret_entry, given, entry, mode, calls>>

\* solve, line 137 with is_valid true: solve returns
CheckValid ==
  /\ pc = "check"
  /\ is_valid(sudoku)
  /\ pc' = "done"
  /\ UNCHANGED <<sudoku, step_counter, steps, before, stack, ret, ret_entry,
                 given, entry, mode, calls>>

\* solve, lines 137-138 with is_valid false: brute_force is called
CheckSearch ==
  /\ pc = "check"
  /\ ~is_valid(sudoku)
  /\ pc' = "call"
  /\ entry' = sudoku
  /\ UNCHANGED <<sudoku, step_counter, steps, before, stack, ret, ret_entry,
                 given, mode, calls>>

\* try_combinations, lines 155-157: no empty cell, return is_valid
TryBase ==
  /\ pc = "call"
  /\ next_step(sudoku) = None
  /\ ret' = bool(is_valid(sudoku))
  /\ ret_entry' = sudoku
  /\ pc' = "ret"
  /\ UNCHANGED <<sudoku, step_counter, steps, before, stack, given, entry, mode,
                 calls>>

\* try_combinations, lines 155-160: an empty cell is chosen
TryCell ==
  /\ pc = "call"
  /\ \E step \in {next_step(sudoku)} :
       /\ step # None
       /\ stack' = Append(stack, [i |-> step[1], j |-> step[2],
                                  nrs |-> step[3], nr |-> 0,
                                  at |-> sudoku])
  /\ pc' = "for"
  /\ UNCHANGED <<sudoku, step_counter, steps, before, ret, ret_entry, given, entry,
                 mode, calls>>

\* try_combinations, lines 160-162: next digit is placed, recursive call
ForNext ==
  /\ pc = "for"
  /\ \E top \in {stack[Len(stack)]} :
       /\ top.nrs # {}
       /\ \E nr \in {First(top.nrs)} :
            /\ sudoku' = set_cell(sudoku, top.i, top.j, nr)
            /\ stack' = [stack EXCEPT ![Len(stack)] =
                           [top EXCEPT !.nrs = top.nrs \ {nr}, !.nr = nr]]
  /\ pc' = "call"
  /\ UNCHANGED <<step_counter, steps, before, ret, ret_entry, given, entry, mode,
                 calls>>

\* try_combinations, lines 164-165: digits exhausted, reset and fail
ForExhausted ==
  /\ pc = "for"
  /\ \E top \in {stack[Len(stack)]} :
       /\ top.nrs = {}
       /\ sudoku' = reset_cell(sudoku, top.i, top.j)
       /\ ret_entry' = top.at
  /\ ret' = "False"
  /\ stack' = SubSeq(stack, 1, Len(stack) - 1)
  /\ pc' = "ret"
  /\ UNCHANGED <<step_counter, steps, before, given, entry, mode, calls>>

\* try_combinations, lines 162-163: the recursive call returned True
ReturnTrue ==
  /\ pc = "ret"
  /\ stack # << >>
  /\ ret = "True"
  /\ ret_entry' = stack[Len(stack)].at
  /\ stack' = SubSeq(stack, 1, Len(stack) - 1)
  /\ UNCHANGED <<sudoku, pc, step_counter, steps, before, ret, given, entry, mode,
                 calls>>

\* try_combinations, line 162: the recursive call returned False
ReturnFalse ==
  /\ pc = "ret"
  /\ stack # << >>
  /\ ret = "False"
  /\ pc' = "for"
  /\ UNCHANGED <<sudoku, step_counter, steps, before, stack, ret, ret_entry, given,
                 entry, mode, calls>>

\* brute_force, line 167: the outermost call returned
SearchDone ==
  /\ pc = "ret"
  /\ stack = << >>
  /\ pc' = "done"
  /\ UNCHANGED <<sudoku, step_counter, steps, before, stack, ret, ret_entry, given,
                 entry, mode, calls>>

\* the caller runs solve again on the grid solve left
SolveAgain ==
  /\ pc = "done"
  /\ mode = "solve"
  /\ calls < MaxCalls
  /\ calls' = calls + 1
  /\ given' = sudoku
  /\ entry' = sudoku
  /\ ret_entry' = sudoku
  /\ step_counter' = 0
  /\ steps' = << >>
  /\ before' = sudoku
  /\ ret' = "None"
  /\ pc' = "loop"
  /\ UNCHANGED <<sudoku, stack, mode>>

Next ==
  \/ Pass
  \/ CheckValid
  \/ CheckSearch
  \/ TryBase
  \/ TryCell
  \/ ForNext
  \/ ForExhausted
  \/ ReturnTrue
  \/ ReturnFalse
  \/ SearchDone
  \/ SolveAgain

Spec == Init /\ [][Next]_vars

\* the program is a single thread that always takes its next step
LiveSpec == Spec /\ WF_vars(Next)

TypeOK ==
  /\ sudoku \in [Idx -> [Idx -> 0..9]]
  /\ pc \in {"loop", "check", "call", "for", "ret", "done"}
  /\ ret \in {"None", "True", "False"}

(***************************************************************************)
(* Reference notions, stated on cells and units rather than through the    *)
(* solver's own operators.                                                 *)
(***************************************************************************)
Cells == Idx \X Idx

SameBox(c, e) == c[1] \div 3 = e[1] \div 3 /\ c[2] \div 3 = e[2] \div 3

\* distinct cells sharing a row, a column or a box
Peer(c, e) == c # e /\ (c[1] = e[1] \/ c[2] = e[2] \/ SameBox(c, e))

Empties(g) == {c \in Cells : g[c[1]][c[2]] = 0}

\* digits held by no peer of c
Unused(g, c) ==
  {d \in 1..9 : \A e \in Cells : Peer(c, e) => g[e[1]][e[2]] # d}

\* the candidate set of a cell: empty for a filled cell
Cand(g, c) == IF g[c[1]][c[2]] = 0 THEN Unused(g, c) ELSE {}

\* no digit occurs twice in a row, column or box
NoDuplicate(g) ==
  \A c \in Cells, e \in Cells :
    Peer(c, e) /\ g[c[1]][c[2]] # 0 => g[c[1]][c[2]] # g[e[1]][e[2]]

\* a full grid in which every row, column and box is a permutation of 1..9
IsSolution(g) == Empties(g) = {} /\ NoDuplicate(g)

\* the valid completions of g: an empty cell takes a digit none of its
\* peers holds, and a full grid completes itself iff it is a solution
RECURSIVE Completions(_)
Completions(g) ==
  IF Empties(g) = {} THEN (IF IsSolution(g) THEN {g} ELSE {})
  ELSE LET c == CHOOSE c \in Empties(g) : TRUE
       IN  UNION {Completions([g EXCEPT ![c[1]][c[2]] = d]) :
                    d \in Unused(g, c)}

Solvable(g) == Completions(g) # {}

Differ(g, h) == {c \in Cells : g[c[1]][c[2]] # h[c[1]][c[2]]}

GivensOf(g) == Cells \ Empties(g)

(***************************************************************************)
(* C1. For every input grid that has a valid completion, solve ends with   *)
(* is_valid(grid) true.                                                    *)
(***************************************************************************)
SolveSolvesSolvable ==
  (mode = "solve" /\ pc = "done" /\ Solvable(given)) => is_valid(sudoku)

\* solve has returned on a solvable input that needed propagation writes
\* and then a successful search
SolveSolvesSolvableWitness ==
  /\ mode = "solve" /\ pc = "done" /\ calls = 1
  /\ Solvable(given)
  /\ ret = "True"
  /\ entry # given
  /\ is_valid(sudoku)

(***************************************************************************)
(* C2, as stated. After solve on a grid whose search exhausts all          *)
(* branches, the grid equals the original givens cell for cell.            *)
(***************************************************************************)
FailedSolveRestoresGivens ==
  (mode = "solve" /\ pc = "done" /\ ret = "False") => sudoku = given

(***************************************************************************)
(* C2, amended. After solve on a grid whose search exhausts all branches,  *)
(* the grid equals the grid the propagation loop ended with (the givens    *)
(* plus the digits written by propagation passes): no digit written by the *)
(* search is left behind, every given is kept, and every other filled cell *)
(* was written by propagation.                                             *)
(***************************************************************************)
FailedSolveRestoresFixpoint ==
  (mode = "solve" /\ pc = "done" /\ ret = "False") =>
     /\ sudoku = entry
     /\ find_next_steps(sudoku) = << >>
     /\ \A c \in GivensOf(given) : sudoku[c[1]][c[2]] = given[c[1]][c[2]]

\* a failed search that placed digits, after propagation wrote some
FailedSolveRestoresFixpointWitness ==
  /\ mode = "solve" /\ pc = "done" /\ ret = "False"
  /\ entry # given
  /\ next_step(entry) # None
  /\ next_step(entry)[3] # {}

(***************************************************************************)
(* C3. brute_force returns True exactly when the grid it was given has a   *)
(* valid completion, and then the grid on return satisfies is_valid and    *)
(* completes the grid given; it returns False exactly when there is none.  *)
(***************************************************************************)
BruteForceDecides ==
  (pc = "ret" /\ stack = << >>) =>
     /\ ret \in {"True", "False"}
     /\ (ret = "True") <=> Solvable(entry)
     /\ (ret = "False") <=> ~Solvable(entry)
     /\ ret = "True" => is_valid(sudoku) /\ sudoku \in Completions(entry)

\* brute_force has returned True after filling at least four cells, the
\* first of them not with the first digit tried
BruteForceDecidesWitness ==
  /\ pc = "ret" /\ stack = << >> /\ ret = "True"
  /\ Cardinality(Differ(sudoku, entry)) >= 4
  /\ sudoku[next_step(entry)[1]][next_step(entry)[2]]
       # First(next_step(entry)[3])

(***************************************************************************)
(* C4. Whenever try_combinations returns False, the grid equals the grid   *)
(* at the moment that call was entered.                                    *)
(***************************************************************************)
FailedCallRestoresGrid ==
  (pc = "ret" /\ ret = "False") => sudoku = ret_entry

\* a recursive call that placed digits in its cell has returned False
FailedCallRestoresGridWitness ==
  /\ pc = "ret" /\ ret = "False" /\ stack # << >>
  /\ next_step(ret_entry) # None
  /\ Cardinality(next_step(ret_entry)[3]) >= 2

(***************************************************************************)
(* C5. solve is idempotent: running solve again on the grid solve left     *)
(* changes no cell; a valid complete grid is unchanged by solve, the       *)
(* propagator emits no step for it and the search is not entered.          *)
(***************************************************************************)
SolveIdempotent ==
  /\ (mode = "solve" /\ calls >= 2) => sudoku = given \/ stack # << >>
  /\ (mode = "solve" /\ calls >= 2 /\ pc = "done") => sudoku = given
  /\ (mode = "solve" /\ is_valid(given)) =>
        /\ sudoku = given
        /\ steps = << >>
        /\ pc \in {"loop", "check", "done"}
        /\ is_valid(sudoku)

\* the second run has searched again, failed again, and returned
SolveIdempotentWitness ==
  /\ mode = "solve" /\ calls = 2 /\ pc = "done"
  /\ ret = "False"
  /\ next_step(entry) # None
  /\ next_step(entry)[3] # {}

(***************************************************************************)
(* C6. solve terminates on every grid: a pass that emits a step strictly   *)
(* reduces the number of empty cells, the loop runs at most one pass per   *)
(* empty cell of the input plus a final empty pass, and every started call *)
(* reaches its return.                                                     *)
(***************************************************************************)
SolveTerminates ==
  /\ [][(pc = "loop" /\ pc' = "loop") =>
          Cardinality(Empties(sudoku')) < Cardinality(Empties(sudoku))]_vars
  /\ [](mode = "solve" => step_counter <= Cardinality(Empties(given)) + 1)
  /\ ((pc # "done") ~> (pc = "done"))

\* solve has returned after at least three passes and a search
SolveTerminatesWitness ==
  /\ mode = "solve" /\ pc = "done"
  /\ step_counter >= 3
  /\ ret # "None"

(***************************************************************************)
(* C7. In one pass, for an empty cell whose candidate set C does not have  *)
(* exactly one element, a step is emitted for the first d of C that is not *)
(* a candidate of another cell of the row AND of another cell of the       *)
(* column AND of another cell of the box, and no step if there is no such  *)
(* d; all candidates are those of the grid before the pass.                *)
(***************************************************************************)
ElsewhereInRow(g, c, d) ==
  \E e \in Cells : e # c /\ e[1] = c[1] /\ d \in Cand(g, e)

ElsewhereInColumn(g, c, d) ==
  \E e \in Cells : e # c /\ e[2] = c[2] /\ d \in Cand(g, e)

ElsewhereInBox(g, c, d) ==
  \E e \in Cells : e # c /\ SameBox(c, e) /\ d \in Cand(g, e)

\* the digits of C the hidden-single rule fires for
Fires(g, c) ==
  {d \in Cand(g, c) : ~(/\ ElsewhereInRow(g, c, d)
                        /\ ElsewhereInColumn(g, c, d)
                        /\ ElsewhereInBox(g, c, d))}

StepsAt(sts, c) == {k \in 1..Len(sts) : sts[k][1] = c[1] /\ sts[k][2] = c[2]}

JustPassed == pc \in {"loop", "check"} /\ step_counter > 0

HiddenSingleRule ==
  JustPassed =>
    \A c \in Empties(before) :
      Cardinality(Cand(before, c)) # 1 =>
        /\ \A d \in Cand(before, c) :
             can_be_placed_elsewhere(c[1], c[2], d, get_possibilities(before))
               <=> (/\ ElsewhereInRow(before, c, d)
                    /\ ElsewhereInColumn(before, c, d)
                    /\ ElsewhereInBox(before, c, d))
        /\ IF Fires(before, c) = {}
           THEN StepsAt(steps, c) = {}
           ELSE /\ Cardinality(StepsAt(steps, c)) = 1
                /\ \A k \in StepsAt(steps, c) :
                     /\ steps[k][3] \in Fires(before, c)
                     /\ \A d \in Fires(before, c) : steps[k][3] <= d

\* a pass has run on a grid with a cell of several candidates for which
\* the rule fires, though not for its first candidate, and with another
\* cell of several candidates for which it does not fire
HiddenSingleRuleWitness ==
  /\ JustPassed
  /\ \E c \in Empties(before) :
       /\ Cardinality(Cand(before, c)) >= 2
       /\ Fires(before, c) # {}
       /\ StepsAt(steps, c) # {}
       /\ \E d \in Cand(before, c) : /\ d \notin Fires(before, c)
                                     /\ \A f \in Fires(before, c) : d < f
  /\ \E c \in Empties(before) :
       /\ Cardinality(Cand(before, c)) >= 2
       /\ Fires(before, c) = {}
       /\ StepsAt(steps, c) = {}

(***************************************************************************)
(* C8. Whenever try_combinations is entered, the cells that differ from    *)
(* the grid brute_force was given are exactly the cells of the active      *)
(* frames, one cell per frame, each holding its frame's current digit, and *)
(* every other cell that was empty at entry holds 0.                       *)
(***************************************************************************)
Owned == {<<stack[k].i, stack[k].j>> : k \in 1..Len(stack)}

ActiveFramesOwnDifferences ==
  pc = "call" =>
    /\ Differ(sudoku, entry) = Owned
    /\ Cardinality(Owned) = Len(stack)
    /\ \A k \in 1..Len(stack) :
         /\ entry[stack[k].i][stack[k].j] = 0
         /\ stack[k].nr \in ref
         /\ sudoku[stack[k].i][stack[k].j] = stack[k].nr
    /\ \A c \in Empties(entry) : c \notin Owned => sudoku[c[1]][c[2]] = 0

\* a call is entered below two frames, the outer of which has moved on to
\* another digit after a branch failed
ActiveFramesOwnDifferencesWitness ==
  /\ pc = "call"
  /\ Len(stack) >= 2
  /\ stack[1].nr # First(get_possible_values(stack[1].i, stack[1].j, entry))
  /\ Cardinality(Empties(entry)) > Len(stack) + 1

(***************************************************************************)
(* C9. If the grid before a pass has a valid completion S, every step      *)
(* (i,j,d) of the pass has d = S[i][j]; applying the batch leaves the set  *)
(* of valid completions unchanged and, on a solvable grid, puts no digit   *)
(* twice in a row, column or box.                                          *)
(***************************************************************************)
PropagationSound ==
  JustPassed =>
    LET sols == Completions(before)
    IN  /\ \A S \in sols : \A k \in 1..Len(steps) :
             S[steps[k][1]][steps[k][2]] = steps[k][3]
        /\ Completions(sudoku) = sols
        /\ sols # {} => NoDuplicate(sudoku)

\* a pass has run on a solvable grid and has written a digit into a cell
\* that had several candidates
PropagationSoundWitness ==
  /\ JustPassed
  /\ Solvable(before)
  /\ \E k \in 1..Len(steps) :
       /\ Cardinality(Cand(before, <<steps[k][1], steps[k][2]>>)) >= 2
       /\ sudoku[steps[k][1]][steps[k][2]] = steps[k][3]

(***************************************************************************)
(* C10. Givens are never overwritten: in every state of solve each cell    *)
(* that held a digit in the input still holds it, and propagation steps    *)
(* and search frames only target cells that were empty in the input.       *)
(***************************************************************************)
GivensNeverOverwritten ==
  /\ \A c \in GivensOf(given) : sudoku[c[1]][c[2]] = given[c[1]][c[2]]
  /\ \A k \in 1..Len(steps) : given[steps[k][1]][steps[k][2]] = 0
  /\ \A k \in 1..Len(stack) : given[stack[k].i][stack[k].j] = 0

\* the search is two frames deep after propagation wrote digits
GivensNeverOverwrittenWitness ==
  /\ mode = "solve" /\ pc = "call"
  /\ Len(stack) >= 2
  /\ steps = << >> /\ entry # given
  /\ Cardinality(Differ(sudoku, given)) >= 4
====
